---- MODULE Spec2Model ----
(***************************************************************************)
(* Model of src/gfx_macros/lib.rs of gfx: the field-name extractor         *)
(* find_name, the alias injector extern_crate_hack, the path rewriter      *)
(* ExternCrateHackFolder / fixup_extern_crate_paths and the shaders!       *)
(* macro.                                                                  *)
(***************************************************************************)
EXTENDS Integers, Sequences, FiniteSets, TLC

VARIABLES
    attributes,  \* find_name: the `attributes` slice
    pos,         \* find_name: how many attributes the fold has consumed
    name,        \* find_name: the fold's accumulator (Option<InternedString>)
    warnings,    \* find_name: the cx.span_warn calls, in order
    used,        \* find_name: positions given to attr::mark_used
    pcName,      \* find_name: "fold" | "done"
    gensym,      \* host interner: number of gensyms handed out so far
    items,       \* modules pushed through extern_crate_hack's callback
    returned,    \* identifiers returned by extern_crate_hack, in call order
    item,        \* fixup_extern_crate_paths: the item given (its paths)
    path_root,   \* fixup_extern_crate_paths: the path_root given
    fixed,       \* fixup_extern_crate_paths: what the fold produced
    pcFix,       \* fixup_extern_crate_paths: "pending" | "fixed"
    input,       \* shaders!: the directive sequence of the invocation
    tokens,      \* shaders!: the tokens still to expand ($($t)*)
    layers,      \* shaders!: the record-update layers expanded so far
    record,      \* shaders!: the value of the innermost expression so far
    pcShaders    \* shaders!: "expand" | "eval" | "done"

nameVars == <<attributes, pos, name, warnings, used, pcName>>
hackVars == <<gensym, items, returned, item, path_root, fixed, pcFix>>
shaderVars == <<input, tokens, layers, record, pcShaders>>
vars == <<attributes, pos, name, warnings, used, pcName,
          gensym, items, returned, item, path_root, fixed, pcFix,
          input, tokens, layers, record, pcShaders>>

(***************************************************************************)
(* Bounds                                                                  *)
(***************************************************************************)
MaxAttrs == 3
MaxCalls == 3
MaxSegs == 3
MaxPaths == 1
MaxDirectives == 3

RECURSIVE SeqsUpTo(_, _)
SeqsUpTo(S, n) ==
    IF n = 0 THEN {<<>>}
    ELSE LET shorter == SeqsUpTo(S, n - 1)
         IN  shorter \cup {Append(s, x) : s \in {t \in shorter : Len(t) = n - 1}, x \in S}

(***************************************************************************)
(* Option<T>                                                               *)
(***************************************************************************)
None == [some |-> FALSE, v |-> ""]
Some(x) == [some |-> TRUE, v |-> x]

(***************************************************************************)
(* find_name                                                               *)
(***************************************************************************)
\* The literal of a name/value annotation: a string literal or another one.
NoLit == [lit |-> "none", s |-> ""]
LitStr(s) == [lit |-> "LitStr", s |-> s]
LitInt == [lit |-> "LitInt", s |-> ""]

\* ast::MetaItem_: a bare key, a list, or a name/value pair.
MetaWord(k) == [node |-> "MetaWord", name |-> k, value |-> NoLit]
MetaList(k) == [node |-> "MetaList", name |-> k, value |-> NoLit]
MetaNameValue(k, l) == [node |-> "MetaNameValue", name |-> k, value |-> l]

Keys == {"name", "doc"}
StrValues == {"a", "b", "c"}
Lits == {LitStr(s) : s \in StrValues} \cup {LitInt}
Attributes ==
    {MetaWord(k) : k \in Keys} \cup {MetaList(k) : k \in Keys}
        \cup {MetaNameValue(k, l) : k \in Keys, l \in Lits}

\* The arm ("name", &ast::LitStr(ref new_name, _)) matches.
IsNameStr(attribute) ==
    /\ attribute.node = "MetaNameValue"
    /\ attribute.name = "name"
    /\ attribute.value.lit = "LitStr"

\* The fold closure's value for accumulator `acc` and one attribute.
FoldName(acc, attribute) ==
    IF attribute.node = "MetaNameValue"
    THEN IF attribute.name = "name" /\ attribute.value.lit = "LitStr"
         THEN IF acc.some THEN None ELSE Some(attribute.value.s)
         ELSE None
    ELSE acc

\* The span_warn calls the closure makes for accumulator `acc` and one attribute.
FoldWarn(acc, attribute) ==
    IF IsNameStr(attribute) /\ acc.some
    THEN <<[extra |-> attribute.value.s, favour |-> acc.v]>>
    ELSE <<>>

InitName ==
    /\ attributes \in SeqsUpTo(Attributes, MaxAttrs)
    /\ pos = 0
    /\ name = None
    /\ warnings = <<>>
    /\ used = {}
    /\ pcName = "fold"

IdleName ==
    /\ attributes = <<>>
    /\ pos = 0
    /\ name = None
    /\ warnings = <<>>
    /\ used = {}
    /\ pcName = "done"

\* One iteration of attributes.iter().fold(None, |name, attribute| ...).
FindNameFold ==
    /\ pcName = "fold"
    /\ pos < Len(attributes)
    /\ LET attribute == attributes[pos + 1]
       IN  /\ name' = FoldName(name, attribute)
           /\ warnings' = warnings \o FoldWarn(name, attribute)
           /\ used' = IF IsNameStr(attribute) THEN used \cup {pos + 1} ELSE used
    /\ pos' = pos + 1
    /\ UNCHANGED <<attributes, pcName>>
    /\ UNCHANGED <<hackVars, shaderVars>>

\* The fold is exhausted: find_name returns the accumulator.
FindNameReturn ==
    /\ pcName = "fold"
    /\ pos = Len(attributes)
    /\ pcName' = "done"
    /\ UNCHANGED <<attributes, pos, name, warnings, used>>
    /\ UNCHANGED <<hackVars, shaderVars>>

(***************************************************************************)
(* Identifiers and paths                                                   *)
(***************************************************************************)
\* static EXTERN_CRATE_HACK
EXTERN_CRATE_HACK == "__gfx_extern_crate_hack"

\* An ast::Ident: its text (as_str) and its symbol number; interned
\* identifiers of one text share symbol 0, a gensym has a fresh symbol.
IdentOf(s) == [str |-> s, sym |-> 0]

\* Faulty variant: the identifier is interned (ident_of) instead of gensym'd.
GensymIdentInterned(s, n) == [str |-> s, sym |-> 0]
\* token::gensym_ident(s) when the host has handed out n gensyms so far.
GensymIdent(s, n) == [str |-> s, sym |-> n + 1]

\* An ast::Path: the global flag and the segments' identifiers.
Path(g, segs) == [global |-> g, segments |-> segs]

(***************************************************************************)
(* extern_crate_hack                                                       *)
(***************************************************************************)
\* mod $ident { extern crate gfx_ = "gfx"; pub use self::gfx_ as gfx; }
ItemMod(ident) ==
    [ident |-> ident,
     view_items |->
        <<[node |-> "ViewItemExternCrate", vis |-> "Inherited",
           ident |-> IdentOf("gfx_"), crate |-> "gfx",
           path |-> Path(FALSE, <<>>)],
          [node |-> "ViewItemUse", vis |-> "Public",
           ident |-> IdentOf("gfx"), crate |-> "",
           path |-> Path(FALSE, <<IdentOf("self"), IdentOf("gfx_")>>)]>>,
     items |-> <<>>]

\* One call of extern_crate_hack: gensym, build the module, push it, return.
ExternCrateHack ==
    /\ gensym < MaxCalls
    /\ LET extern_crate_hack == GensymIdent(EXTERN_CRATE_HACK, gensym)
       IN  /\ gensym' = gensym + 1
           /\ items' = Append(items, ItemMod(extern_crate_hack))
           /\ returned' = Append(returned, extern_crate_hack)
    /\ UNCHANGED <<item, path_root, fixed, pcFix>>
    /\ UNCHANGED <<nameVars, shaderVars>>

(***************************************************************************)
(* ExternCrateHackFolder and fixup_extern_crate_paths                      *)
(***************************************************************************)
\* The outcome of a fold: a value, or a panic (index out of bounds).
Ok(x) == [panic |-> FALSE, value |-> x]
Panic(x) == [panic |-> TRUE, value |-> x]

\* segments.get(i).map(|s| s.identifier.as_str() == text).unwrap_or(false),
\* i counted from 0 as in the source.
GetIs(segments, i, text) ==
    IF i < Len(segments) THEN segments[i + 1].str = text ELSE FALSE

\* p.segments[i].identifier = ident; p.global = false; p
\* (indexing past the end panics), i counted from 0.
SetRoot(p, i, ident) ==
    IF i < Len(p.segments)
    THEN Ok([global |-> FALSE,
             segments |-> [p.segments EXCEPT ![i + 1] = ident]])
    ELSE Panic(p)

\* syntax::fold::noop_fold_path with this folder: fold_ident is not
\* overridden, so every segment's identifier and the global flag are kept.
NoopFoldPath(p) ==
    [global |-> p.global,
     segments |-> [k \in 1..Len(p.segments) |-> p.segments[k]]]

\* Faulty variants of fold_path: the global flag is not cleared; the `self`
\* rule overwrites segment 0; unrelated paths lose their global flag; the
\* second segment is indexed without checking that it exists.
FoldPathKeepGlobal(p0, root) ==
    LET p == NoopFoldPath(p0)
    IN  IF GetIs(p.segments, 0, EXTERN_CRATE_HACK)
        THEN Ok([p EXCEPT !.segments[1] = root])
        ELSE IF GetIs(p.segments, 0, "self") /\ GetIs(p.segments, 1, EXTERN_CRATE_HACK)
        THEN SetRoot(p, 1, root)
        ELSE Ok(p)

FoldPathSelfFirst(p0, root) ==
    LET p == NoopFoldPath(p0)
    IN  IF GetIs(p.segments, 0, EXTERN_CRATE_HACK)
        THEN SetRoot(p, 0, root)
        ELSE IF GetIs(p.segments, 0, "self") /\ GetIs(p.segments, 1, EXTERN_CRATE_HACK)
        THEN SetRoot(p, 0, root)
        ELSE Ok(p)

FoldPathAlwaysLocal(p0, root) ==
    LET p == NoopFoldPath(p0)
    IN  IF GetIs(p.segments, 0, EXTERN_CRATE_HACK)
        THEN SetRoot(p, 0, root)
        ELSE IF GetIs(p.segments, 0, "self") /\ GetIs(p.segments, 1, EXTERN_CRATE_HACK)
        THEN SetRoot(p, 1, root)
        ELSE Ok([p EXCEPT !.global = FALSE])

FoldPathUnchecked(p0, root) ==
    LET p == NoopFoldPath(p0)
    IN  IF GetIs(p.segments, 0, EXTERN_CRATE_HACK)
        THEN SetRoot(p, 0, root)
        ELSE IF GetIs(p.segments, 0, "self")
        THEN IF Len(p.segments) < 2 THEN Panic(p)
             ELSE IF p.segments[2].str = EXTERN_CRATE_HACK
                  THEN SetRoot(p, 1, root) ELSE Ok(p)
        ELSE Ok(p)

\* ExternCrateHackFolder::fold_path with self.path_root = root.
FoldPath(p0, root) ==
    LET p == NoopFoldPath(p0)
        needs_fix == GetIs(p.segments, 0, EXTERN_CRATE_HACK)
        needs_fix_self == /\ GetIs(p.segments, 0, "self")
                          /\ GetIs(p.segments, 1, EXTERN_CRATE_HACK)
    IN  IF needs_fix THEN SetRoot(p, 0, root)
        ELSE IF needs_fix_self THEN SetRoot(p, 1, root)
        ELSE Ok(p)

\* ExternCrateHackFolder { path_root }.fold_item(item): fold_path on every
\* path of the item, in order; a panic in any of them aborts the fold.
FixupExternCratePaths(it, root) ==
    LET folded == [k \in 1..Len(it) |-> FoldPath(it[k], root)]
    IN  IF \E k \in 1..Len(it) : folded[k].panic
        THEN Panic(<<>>)
        ELSE Ok([k \in 1..Len(it) |-> folded[k].value])

\* The paths generated code is made of: interned identifiers only.
SegTexts == {EXTERN_CRATE_HACK, "self", "gfx"}
Paths ==
    {Path(g, segs) : g \in BOOLEAN,
                     segs \in SeqsUpTo({IdentOf(t) : t \in SegTexts}, MaxSegs)}
Items == SeqsUpTo(Paths, MaxPaths)

Range(s) == {s[k] : k \in 1..Len(s)}

\* The call of fixup_extern_crate_paths(item, path_root) on the generated
\* item, the path_root being an identifier some extern_crate_hack call
\* returned.
Fixup ==
    /\ pcFix = "pending"
    /\ pcFix' = "fixed"
    /\ \E it \in Items, root \in Range(returned) :
          /\ item' = it
          /\ path_root' = root
          /\ fixed' = FixupExternCratePaths(it, root)
    /\ UNCHANGED <<gensym, items, returned>>
    /\ UNCHANGED <<nameVars, shaderVars>>

InitHack ==
    /\ gensym = 0
    /\ items = <<>>
    /\ returned = <<>>
    /\ item = <<>>
    /\ path_root = IdentOf("")
    /\ fixed = Ok(<<>>)
    /\ pcFix = "pending"

(***************************************************************************)
(* shaders!                                                                *)
(***************************************************************************)
Keywords == {"GLSL_120", "GLSL_130", "GLSL_140", "GLSL_150", "TARGETS"}
Fields == {"glsl_120", "glsl_130", "glsl_140", "glsl_150", "targets"}
Exprs == {"a", "b"}
Directives == [keyword : Keywords, value : Exprs]

\* Faulty variant of RuleField: the GLSL_140 rule copied from the GLSL_130
\* rule without renaming the field.
RuleFieldCopied(keyword) ==
    CASE keyword = "GLSL_120" -> "glsl_120"
      [] keyword = "GLSL_130" -> "glsl_130"
      [] keyword = "GLSL_140" -> "glsl_130"
      [] keyword = "GLSL_150" -> "glsl_150"
      [] keyword = "TARGETS" -> "targets"

\* The field the rule for `keyword` names in its record update.
RuleField(keyword) ==
    CASE keyword = "GLSL_120" -> "glsl_120"
      [] keyword = "GLSL_130" -> "glsl_130"
      [] keyword = "GLSL_140" -> "glsl_140"
      [] keyword = "GLSL_150" -> "glsl_150"
      [] keyword = "TARGETS" -> "targets"

\* The () rule: every field None.
EmptyShaderSource == [f \in Fields |-> None]

\* Faulty variant of StructUpdate: a field the base already sets is taken
\* from the base.
StructUpdateBaseFirst(field, v, base) ==
    IF base[field].some THEN base ELSE [base EXCEPT ![field] = Some(v)]

\* ShaderSource { field: Some(v), ..base }: the named field is Some(v),
\* every other field is the base's.
StructUpdate(field, v, base) ==
    [f \in Fields |-> IF f = field THEN Some(v) ELSE base[f]]

InitShaders ==
    /\ input \in SeqsUpTo(Directives, MaxDirectives)
    /\ tokens = input
    /\ layers = <<>>
    /\ record = EmptyShaderSource
    /\ pcShaders = "expand"

IdleShaders ==
    /\ input = <<>>
    /\ tokens = <<>>
    /\ layers = <<>>
    /\ record = EmptyShaderSource
    /\ pcShaders = "done"

\* A keyword rule matches the leading `KEYWORD: $v`: it expands to a record
\* update of that rule's field over shaders!($($t)*), the rest of the tokens.
ExpandKeyword ==
    /\ pcShaders = "expand"
    /\ tokens # <<>>
    /\ LET d == Head(tokens)
       IN  layers' = Append(layers, [field |-> RuleField(d.keyword), value |-> d.value])
    /\ tokens' = Tail(tokens)
    /\ UNCHANGED <<input, record, pcShaders>>
    /\ UNCHANGED <<nameVars, hackVars>>

\* The () rule matches the empty remainder: the innermost expression.
ExpandEmpty ==
    /\ pcShaders = "expand"
    /\ tokens = <<>>
    /\ record' = EmptyShaderSource
    /\ pcShaders' = IF layers = <<>> THEN "done" ELSE "eval"
    /\ UNCHANGED <<input, tokens, layers>>
    /\ UNCHANGED <<nameVars, hackVars>>

\* Evaluation of the innermost pending record update over its base.
EvalUpdate ==
    /\ pcShaders = "eval"
    /\ layers # <<>>
    /\ LET l == layers[Len(layers)]
       IN  record' = StructUpdate(l.field, l.value, record)
    /\ layers' = SubSeq(layers, 1, Len(layers) - 1)
    /\ pcShaders' = IF Len(layers) = 1 THEN "done" ELSE "eval"
    /\ UNCHANGED <<input, tokens>>
    /\ UNCHANGED <<nameVars, hackVars>>

(***************************************************************************)
(* Specifications, one per component                                       *)
(***************************************************************************)
NextName == FindNameFold \/ FindNameReturn
InitFindName == InitName /\ InitHack /\ IdleShaders
SpecFindName == InitFindName /\ [][NextName]_vars

NextHack == ExternCrateHack \/ Fixup
InitExternCrateHack == IdleName /\ InitHack /\ IdleShaders
SpecHack == InitExternCrateHack /\ [][NextHack]_vars

NextShaders == ExpandKeyword \/ ExpandEmpty \/ EvalUpdate
InitShadersMacro == IdleName /\ InitHack /\ InitShaders
SpecShaders == InitShadersMacro /\ [][NextShaders]_vars

(***************************************************************************)
(* Properties of find_name                                                 *)
(***************************************************************************)
\* Positions of the `name = "<string>"` annotations of the list.
NamePositions ==
    {k \in 1..Len(attributes) :
        /\ attributes[k].node = "MetaNameValue"
        /\ attributes[k].name = "name"
        /\ attributes[k].value.lit = "LitStr"}

\* The j-th such position, in list order.
NthNamePosition(j) ==
    CHOOSE p \in NamePositions : Cardinality({q \in NamePositions : q <= p}) = j

\* C1: with two or more `name = "<string>"` annotations, find_name returns
\* Some of the value of the first of them.
C1_FirstNameReturned ==
    (pcName = "done" /\ Cardinality(NamePositions) >= 2)
        => name = Some(attributes[NthNamePosition(1)].value.s)

\* C2: with k >= 1 `name = "<string>"` annotations, find_name emits exactly
\* k-1 warnings, one per such annotation after the first, each naming that
\* annotation's value as rejected and the first-seen value as kept.
C2_OneWarningPerExtraName ==
    (pcName = "done" /\ Cardinality(NamePositions) >= 1)
        => /\ Len(warnings) = Cardinality(NamePositions) - 1
           /\ \A j \in 1..Len(warnings) :
                 warnings[j] =
                    [extra |-> attributes[NthNamePosition(j + 1)].value.s,
                     favour |-> attributes[NthNamePosition(1)].value.s]

\* C3: with exactly one `name = "x"` annotation, find_name returns Some("x")
\* whatever other annotations precede or follow it.
C3_SingleNameReturned ==
    (pcName = "done" /\ Cardinality(NamePositions) = 1)
        => name = Some(attributes[NthNamePosition(1)].value.s)

(***************************************************************************)
(* Properties of extern_crate_hack                                         *)
(***************************************************************************)
\* C4: every extern_crate_hack call pushes exactly one module, named by the
\* identifier the call returns, and the identifiers of any two calls differ.
C4_OneModulePerCallDistinctIdents ==
    /\ Len(items) = Len(returned)
    /\ \A k \in 1..Len(returned) :
          k <= Len(items) /\ items[k].ident = returned[k]
    /\ \A j, k \in 1..Len(returned) : j # k => returned[j] # returned[k]

C4_Witness ==
    /\ Len(returned) = 3
    /\ Len(items) = 3
    /\ returned[1] # returned[3]

(***************************************************************************)
(* Properties of the path rewriter                                         *)
(***************************************************************************)
FirstIsMarker(p) ==
    Len(p.segments) >= 1 /\ p.segments[1].str = EXTERN_CRATE_HACK

SelfThenMarker(p) ==
    /\ Len(p.segments) >= 2
    /\ p.segments[1].str = "self"
    /\ p.segments[2].str = EXTERN_CRATE_HACK

\* The rewriter has run on `item` and returned (as many paths as it got).
Rewritten ==
    pcFix = "fixed" /\ ~fixed.panic /\ Len(fixed.value) = Len(item)

\* C5: a path whose first segment is the marker comes back with path_root
\* as first segment, the other segments unchanged and in order, and the
\* global flag false, whatever the input's global flag was.
C5_MarkerRootReplaced ==
    pcFix = "fixed" =>
        \A k \in 1..Len(item) :
            FirstIsMarker(item[k]) =>
                /\ Rewritten
                /\ fixed.value[k].global = FALSE
                /\ Len(fixed.value[k].segments) = Len(item[k].segments)
                /\ fixed.value[k].segments[1] = path_root
                /\ \A j \in 2..Len(item[k].segments) :
                      fixed.value[k].segments[j] = item[k].segments[j]

C5_Witness ==
    /\ Rewritten
    /\ \E k \in 1..Len(item) :
          /\ item[k] = Path(TRUE, <<IdentOf(EXTERN_CRATE_HACK), IdentOf("gfx"),
                                    IdentOf("self")>>)
          /\ fixed.value[k] = Path(FALSE, <<path_root, IdentOf("gfx"),
                                            IdentOf("self")>>)
          /\ path_root.sym >= 1

\* C6 as stated: `self::marker::<rest>` comes back as `X::<rest>`, global
\* flag false.
C6_SelfMarkerBecomesRoot ==
    pcFix = "fixed" =>
        \A k \in 1..Len(item) :
            SelfThenMarker(item[k]) =>
                /\ Rewritten
                /\ fixed.value[k] =
                      Path(FALSE, <<path_root>>
                              \o SubSeq(item[k].segments, 3, Len(item[k].segments)))

\* C6 amended: `self::marker::<rest>` comes back as `self::X::<rest>`: the
\* second segment is path_root, `self` and the rest are kept, and the
\* global flag is false.
C6_SelfMarkerSecondReplaced ==
    pcFix = "fixed" =>
        \A k \in 1..Len(item) :
            SelfThenMarker(item[k]) =>
                /\ Rewritten
                /\ fixed.value[k] =
                      Path(FALSE, <<IdentOf("self"), path_root>>
                              \o SubSeq(item[k].segments, 3, Len(item[k].segments)))

C6_Witness ==
    /\ Rewritten
    /\ \E k \in 1..Len(item) :
          /\ item[k] = Path(TRUE, <<IdentOf("self"), IdentOf(EXTERN_CRATE_HACK),
                                    IdentOf("gfx")>>)
          /\ fixed.value[k] = Path(FALSE, <<IdentOf("self"), path_root,
                                            IdentOf("gfx")>>)
          /\ path_root.sym >= 1

\* C7: an item none of whose paths starts with the marker or with `self`
\* followed by the marker comes back unchanged: every path keeps all its
\* segments and its global flag.
C7_UnrelatedPathsUnchanged ==
    (/\ pcFix = "fixed"
     /\ \A k \in 1..Len(item) : ~FirstIsMarker(item[k]) /\ ~SelfThenMarker(item[k]))
        => fixed = Ok(item)

C7_Witness ==
    /\ pcFix = "fixed"
    /\ fixed = Ok(item)
    /\ \E k \in 1..Len(item) :
          /\ item[k].global
          /\ Len(item[k].segments) = 3
          /\ item[k].segments[1].str = "self"
          /\ item[k].segments[2].str = "gfx"
          /\ item[k].segments[3].str = EXTERN_CRATE_HACK

\* A path with fewer segments than a rewrite rule inspects: no segment, or
\* the one-segment path `self`.
TooShort(p) ==
    \/ Len(p.segments) = 0
    \/ Len(p.segments) = 1 /\ p.segments[1].str = "self"

\* C10 as stated: on a path with fewer segments than a rule inspects the
\* rewriter raises a fatal error instead of returning a path.
C10_ShortPathIsFatal ==
    (pcFix = "fixed" /\ \E k \in 1..Len(item) : TooShort(item[k]))
        => fixed.panic

\* C10 amended: on a path with fewer segments than a rule inspects no rule
\* matches: the rewriter raises no error and returns the path unchanged.
C10_ShortPathUnchanged ==
    pcFix = "fixed" =>
        \A k \in 1..Len(item) :
            TooShort(item[k]) => Rewritten /\ fixed.value[k] = item[k]

C10_Witness ==
    /\ Rewritten
    /\ \E k \in 1..Len(item) :
          /\ item[k] = Path(TRUE, <<IdentOf("self")>>)
          /\ fixed.value[k] = item[k]

(***************************************************************************)
(* Properties of shaders!                                                  *)
(***************************************************************************)
Occurrences(keyword) == {k \in 1..Len(input) : input[k].keyword = keyword}

Leftmost(keyword) ==
    CHOOSE k \in Occurrences(keyword) : \A j \in Occurrences(keyword) : k <= j

\* The slot of the resulting record that belongs to `keyword`.
SlotOf(keyword) ==
    CASE keyword = "GLSL_120" -> record.glsl_120
      [] keyword = "GLSL_130" -> record.glsl_130
      [] keyword = "GLSL_140" -> record.glsl_140
      [] keyword = "GLSL_150" -> record.glsl_150
      [] keyword = "TARGETS" -> record.targets

\* C8: a keyword that occurs more than once leaves in its slot Some of the
\* value of its leftmost occurrence.
C8_LeftmostWins ==
    pcShaders = "done" =>
        \A keyword \in Keywords :
            Cardinality(Occurrences(keyword)) >= 2
                => SlotOf(keyword) = Some(input[Leftmost(keyword)].value)

C8_Witness ==
    /\ pcShaders = "done"
    /\ input = <<[keyword |-> "GLSL_120", value |-> "a"],
                 [keyword |-> "GLSL_120", value |-> "b"]>>
    /\ record.glsl_120 = Some("a")

\* C9: a slot is Some(value) exactly when its keyword occurs in the
\* directive sequence and None otherwise.
C9_SlotSetIffKeywordOccurs ==
    pcShaders = "done" =>
        \A keyword \in Keywords :
            IF Occurrences(keyword) = {}
            THEN SlotOf(keyword) = None
            ELSE /\ SlotOf(keyword).some
                 /\ \E k \in Occurrences(keyword) :
                       SlotOf(keyword) = Some(input[k].value)

C9_Witness ==
    /\ pcShaders = "done"
    /\ input = <<[keyword |-> "TARGETS", value |-> "a"]>>
    /\ record = [glsl_120 |-> None, glsl_130 |-> None, glsl_140 |-> None,
                 glsl_150 |-> None, targets |-> Some("a")]

====
